---- MODULE Spec2Model ----
(***************************************************************************)
(* SafePath Navigator: the route safety-scoring engine.                    *)
(*                                                                         *)
(*   utils/safetyUtils.js            calculateSafetyScore,                 *)
(*                                   generateMockRoutes                    *)
(*   services/fbiCrimeDataService.js getCrimeStatsByCoordinates            *)
(*   context/MapContext.js           the route-scoring effect (blend)      *)
(*                                                                         *)
(* Numbers.  Coordinates are integers in units of 0.0001 degree (every     *)
(* literal coordinate and offset of the source is a multiple of it).       *)
(* Scores are exact rationals, kept as a numerator over a denominator, up  *)
(* to the one irrational step: Math.sqrt is taken to 4 decimals of         *)
(* distance*100 (rounded down).  Math.round(a/b) is floor(a/b + 1/2).      *)
(* Comparisons of a distance with a threshold are exact (on squares).     *)
(*                                                                         *)
(* A JavaScript value that may be null is a sequence of length 0 (null)    *)
(* or 1 (the value).                                                       *)
(***************************************************************************)
EXTENDS Integers, Sequences, FiniteSets, TLC

VARIABLES
    routePath,      \* scorer call: the argument of calculateSafetyScore
    score,          \* scorer call: its result (NULL until it returned)
    genOrigin,      \* generator call: first argument of generateMockRoutes
    genDestination, \* generator call: second argument
    genRoutes,      \* generator call: its result (NULL until it returned)
    cb,             \* one run of the per-route callback of the scoring effect
    heap,           \* the score objects of that run, by reference
    est,            \* one call of getCrimeStatsByCoordinates
    crimeStatsArg,  \* recommendation call: the argument of getSafetyRecommendations
    recommendations,\* recommendation call: its result (NULL until it returned)
    origin,         \* MapProvider state: origin
    destination,    \* MapProvider state: destination
    routes,         \* MapProvider state: routes
    selectedRoute,  \* MapProvider state: selectedRoute
    isLoading,      \* MapProvider state: isLoading
    queries,        \* runs of the route effect still in flight, oldest first
    started,        \* number of runs of the route effect that started a query
    published,      \* the run whose result setRoutes stored last (0: none)
    dirOrigin,      \* directions-based MapProvider state: origin
    dirDestination, \* directions-based MapProvider state: destination
    travelMode,     \* directions-based MapProvider state: travelMode
    dirRoutes,      \* directions-based MapProvider state: routes
    dirSelectedRoute, \* directions-based MapProvider state: selectedRoute
    dirIsLoading,   \* directions-based MapProvider state: isLoading
    dirError,       \* directions-based MapProvider state: error
    dirPending,     \* calls of calculateRoutes that have not settled yet
    searchInput,    \* PlacesSearch state: searchInput
    searchHistory,  \* PlacesSearch state: searchHistory, first item first
    now             \* the clock Date.now() reads, in milliseconds

recVars == <<crimeStatsArg, recommendations>>
mapVars == <<origin, destination, routes, selectedRoute, isLoading,
             queries, started, published>>

dirVars == <<dirOrigin, dirDestination, travelMode, dirRoutes, dirSelectedRoute,
             dirIsLoading, dirError, dirPending>>
histVars == <<searchInput, searchHistory, now>>

vars == <<routePath, score, genOrigin, genDestination, genRoutes, cb, heap, est,
          recVars, mapVars, dirVars, histVars>>

NULL == <<>>
Some(v) == <<v>>
Val(x) == x[1]

Point(lat, lng) == [lat |-> lat, lng |-> lng]

\* the recommendation call is not made
RecIdle == crimeStatsArg = NULL /\ recommendations = NULL

\* the MapProvider is not mounted
MapIdle ==
    /\ origin = NULL /\ destination = NULL /\ routes = <<>> /\ selectedRoute = NULL
    /\ isLoading = FALSE
    /\ queries = <<>> /\ started = 0 /\ published = 0

\* the directions-based MapProvider is not mounted
DirIdle ==
    /\ dirOrigin = NULL /\ dirDestination = NULL /\ travelMode = "WALKING"
    /\ dirRoutes = <<>> /\ dirSelectedRoute = NULL
    /\ dirIsLoading = FALSE /\ dirError = NULL /\ dirPending = 0

\* PlacesSearch is not mounted
HistIdle == searchInput = "" /\ searchHistory = <<>> /\ now = 0

-----------------------------------------------------------------------------
(* Arithmetic helpers *)

Max(a, b) == IF a >= b THEN a ELSE b
Min(a, b) == IF a <= b THEN a ELSE b

\* Math.round of the rational num/den (den > 0): halves round up.
Round(num, den) == (2 * num + den) \div (2 * den)

RECURSIVE ISqrtIter(_, _, _)
ISqrtIter(n, lo, hi) ==
    IF lo >= hi THEN lo
    ELSE LET mid == (lo + hi + 1) \div 2
         IN  IF mid * mid <= n THEN ISqrtIter(n, mid, hi)
             ELSE ISqrtIter(n, lo, mid - 1)

\* floor of the square root of n, 0 <= n < 10^8
ISqrt(n) == ISqrtIter(n, 0, 10000)

\* Math.pow(dlat, 2) + Math.pow(dlng, 2), in (0.0001 degree)^2
distanceSq(p, q) == (p.lat - q.lat) * (p.lat - q.lat) + (p.lng - q.lng) * (p.lng - q.lng)

-----------------------------------------------------------------------------
(* utils/safetyUtils.js *)

\* weight in tenths
mockCrimeData == <<
    [lat |-> 377740, lng |-> -1224190, weight |-> 8],
    [lat |-> 377750, lng |-> -1224170, weight |-> 7],
    [lat |-> 377760, lng |-> -1224180, weight |-> 9],
    [lat |-> 377730, lng |-> -1224150, weight |-> 5],
    [lat |-> 377720, lng |-> -1224160, weight |-> 4],
    [lat |-> 377710, lng |-> -1224140, weight |-> 6],
    [lat |-> 377700, lng |-> -1224130, weight |-> 2],
    [lat |-> 377690, lng |-> -1224120, weight |-> 1],
    [lat |-> 377680, lng |-> -1224100, weight |-> 3] >>

mockLightingData == <<
    [lat |-> 377740, lng |-> -1224190, level |-> "low"],
    [lat |-> 377720, lng |-> -1224160, level |-> "medium"],
    [lat |-> 377700, lng |-> -1224130, level |-> "high"] >>

\* distance < 0.01, squared, in (0.0001 degree)^2
CrimeRadiusSq == 10000
\* distance < 0.005
LightRadiusSq == 2500

\* crimePoint.weight * (1 - distance * 100), in units of 10^-5;
\* 0 when the crime point is not within the radius
crimeContribution(routePoint, crimePoint) ==
    LET d2 == distanceSq(routePoint, crimePoint)
    IN  IF d2 < CrimeRadiusSq
        THEN crimePoint.weight * (10000 - ISqrt(d2 * 10000))
        ELSE 0

\* pointCrimeUpTo that keeps the greatest contribution instead of adding
RECURSIVE pointCrimeUpToMax(_, _)
pointCrimeUpToMax(routePoint, i) ==
    IF i = 0 THEN 0
    ELSE Max(pointCrimeUpToMax(routePoint, i - 1),
             crimeContribution(routePoint, mockCrimeData[i]))

RECURSIVE pointCrimeUpTo(_, _)
pointCrimeUpTo(routePoint, i) ==
    IF i = 0 THEN 0
    ELSE pointCrimeUpTo(routePoint, i - 1) + crimeContribution(routePoint, mockCrimeData[i])

\* pointCrimeScore after the inner forEach over mockCrimeData, in 10^-5
pointCrimeScore(routePoint) == pointCrimeUpTo(routePoint, Len(mockCrimeData))

\* levelFloor with the floors of 'high' and 'low' exchanged
levelFloorInverted(level) ==
    IF level = "high" THEN 3 ELSE IF level = "medium" THEN 6 ELSE 9

\* the floor of a lighting level, in tenths
levelFloor(level) ==
    IF level = "high" THEN 9 ELSE IF level = "medium" THEN 6 ELSE 3

\* lightingStep that assigns the level's floor instead of taking the maximum
lightingStepAssign(current, routePoint, lightPoint) ==
    IF distanceSq(routePoint, lightPoint) < LightRadiusSq
    THEN levelFloor(lightPoint.level)
    ELSE current

\* one iteration of the forEach over mockLightingData
lightingStep(current, routePoint, lightPoint) ==
    IF distanceSq(routePoint, lightPoint) < LightRadiusSq
    THEN Max(current, levelFloor(lightPoint.level))
    ELSE current

\* pointLightingUpTo that starts from 0 instead of the default 0.5
RECURSIVE pointLightingUpToNoDefault(_, _)
pointLightingUpToNoDefault(routePoint, i) ==
    IF i = 0 THEN 0
    ELSE lightingStep(pointLightingUpToNoDefault(routePoint, i - 1), routePoint,
                      mockLightingData[i])

RECURSIVE pointLightingUpTo(_, _)
pointLightingUpTo(routePoint, i) ==
    IF i = 0 THEN 5
    ELSE lightingStep(pointLightingUpTo(routePoint, i - 1), routePoint, mockLightingData[i])

\* pointLightingScore after the inner forEach, in tenths (default 0.5)
pointLightingScore(routePoint) == pointLightingUpTo(routePoint, Len(mockLightingData))

RECURSIVE crimeSum(_, _)
crimeSum(path, i) ==
    IF i = 0 THEN 0 ELSE crimeSum(path, i - 1) + pointCrimeScore(path[i])

RECURSIVE lightingSum(_, _)
lightingSum(path, i) ==
    IF i = 0 THEN 0 ELSE lightingSum(path, i - 1) + pointLightingScore(path[i])

\* clampScore without the clamp (lines 101-102 left out)
clampScoreNone(num, den) == num

\* Math.max(0, Math.min(100, num/den)), as a numerator over den
clampScore(num, den) == Max(0, Min(100 * den, num))

ScoreRec(o, c, l) == [overall |-> o, crime |-> c, lighting |-> l]

\* scoreNonEmpty that reports the average crime risk itself as the crime
\* sub-score (line 97 without the "100 -")
scoreNonEmptyCrimeAsRisk(path) ==
    LET n        == Len(path)
        den      == n * 1000
        crimeNum == clampScore(crimeSum(path, n), den)
        lightNum == clampScore(10000 * lightingSum(path, n), den)
        overallNum == 6 * crimeNum + 4 * lightNum
    IN  ScoreRec(Round(overallNum, 10 * den),
                 Round(crimeNum, den),
                 Round(lightNum, den))

\* lines 44-111, for a path of n > 0 points
scoreNonEmpty(path) ==
    LET n        == Len(path)
        den      == n * 1000
        \* 100 - ((crimeScore / n) * 100)  =  (100*den - sum) / den
        crimeNum == clampScore(100 * den - crimeSum(path, n), den)
        \* (lightingScore / n) * 100       =  (10000 * sum) / den
        lightNum == clampScore(10000 * lightingSum(path, n), den)
        \* crimeScore * 0.6 + lightingScore * 0.4, over 10*den
        overallNum == 6 * crimeNum + 4 * lightNum
    IN  ScoreRec(Round(overallNum, 10 * den),
                 Round(crimeNum, den),
                 Round(lightNum, den))

\* calculateSafetyScore whose guard tests only !routePath: an empty path
\* falls through to the ": 50" branches of lines 97-98
calculateSafetyScoreNullOnly(rp) ==
    IF rp = NULL THEN ScoreRec(0, 0, 0)
    ELSE IF Len(Val(rp)) = 0 THEN ScoreRec(50, 50, 50)
    ELSE scoreNonEmpty(Val(rp))

\* rp: NULL or Some(sequence of points)
calculateSafetyScore(rp) ==
    IF rp = NULL \/ Len(Val(rp)) = 0
    THEN ScoreRec(0, 0, 0)
    ELSE scoreNonEmpty(Val(rp))

-----------------------------------------------------------------------------
(* Scorer calls: calculateSafetyScore applied to a path *)

\* longest path handed to the scorer
MaxPathLen == 2

\* route points the scorer is called with: on crime points, between them,
\* next to lighting points, and far from every signal point; the last four
\* are the crime point of least weight, a point next to the 'low' lighting
\* point only, a point next to the 'high' lighting point only, and a point
\* at exactly 0.01 from the nearest crime point
PathPoints == {
    Point(377740, -1224190), Point(377750, -1224180), Point(377660, -1224200),
    Point(377700, -1224130), Point(377720, -1224160), Point(377710, -1224120),
    Point(380000, -1230000), Point(377749, -1224194),
    Point(377690, -1224120), Point(377760, -1224210), Point(377690, -1224110),
    Point(377740, -1224290) }

RECURSIVE SeqsUpTo(_, _)
SeqsUpTo(S, n) ==
    IF n = 0 THEN { <<>> }
    ELSE LET shorter == SeqsUpTo(S, n - 1)
         IN  shorter \cup { Append(s, x) : s \in { t \in shorter : Len(t) = n - 1 }, x \in S }

ScorerInputs == { NULL } \cup { Some(p) : p \in SeqsUpTo(PathPoints, MaxPathLen) }

ScorerInit ==
    /\ routePath \in ScorerInputs
    /\ score = NULL
    /\ genOrigin = NULL /\ genDestination = NULL /\ genRoutes = NULL
    /\ cb = NULL /\ heap = <<>> /\ est = NULL
    /\ RecIdle /\ MapIdle /\ DirIdle /\ HistIdle

CallCalculateSafetyScore ==
    /\ score = NULL
    /\ score' = Some(calculateSafetyScore(routePath))
    /\ UNCHANGED <<routePath, genOrigin, genDestination, genRoutes, cb, heap, est, recVars, mapVars, dirVars, histVars>>


ScorerSpec == ScorerInit /\ [][CallCalculateSafetyScore]_vars

-----------------------------------------------------------------------------
(* utils/safetyUtils.js: generateMockRoutes *)

Offset(p, dlat, dlng) == Point(p.lat + dlat, p.lng + dlng)

\* routePathOf that leaves the destination out of the path
routePathOfNoEnd(o, d, w1, w2, w3) ==
    << o, Offset(o, w1[1], w1[2]), Offset(o, w2[1], w2[2]), Offset(d, -w3[1], -w3[2]) >>

\* the path of one candidate: origin, two waypoints offset from the origin,
\* one waypoint offset back from the destination, destination
routePathOf(o, d, w1, w2, w3) ==
    << o, Offset(o, w1[1], w1[2]), Offset(o, w2[1], w2[2]), Offset(d, -w3[1], -w3[2]), d >>

Route(id, name, duration, distance, path) ==
    [id |-> id, name |-> name, duration |-> duration, distance |-> distance, path |-> path]

\* threeRoutes whose second candidate repeats the offsets of the first
threeRoutesCopied(o, d) ==
    << Route("route-1", "Recommended Route", "12 min", "1.2 mi",
             routePathOf(o, d, <<30, 20>>, <<50, 50>>, <<20, 30>>)),
       Route("route-2", "Alternative Route 1", "15 min", "1.4 mi",
             routePathOf(o, d, <<30, 20>>, <<50, 50>>, <<20, 30>>)),
       Route("route-3", "Alternative Route 2", "10 min", "1.1 mi",
             routePathOf(o, d, <<40, 10>>, <<70, 20>>, <<30, 10>>)) >>

\* the array literal of lines 124-164; offsets in 0.0001 degree
threeRoutes(o, d) ==
    << Route("route-1", "Recommended Route", "12 min", "1.2 mi",
             routePathOf(o, d, <<30, 20>>, <<50, 50>>, <<20, 30>>)),
       Route("route-2", "Alternative Route 1", "15 min", "1.4 mi",
             routePathOf(o, d, <<20, 40>>, <<60, 30>>, <<10, 50>>)),
       Route("route-3", "Alternative Route 2", "10 min", "1.1 mi",
             routePathOf(o, d, <<40, 10>>, <<70, 20>>, <<30, 10>>)) >>

\* generateMockRoutes that returns early only when both endpoints are
\* absent, and otherwise lets the endpoint that is present stand in
generateMockRoutesBothAbsent(o, d) ==
    IF o = NULL /\ d = NULL
    THEN <<>>
    ELSE threeRoutes(IF o = NULL THEN Val(d) ELSE Val(o),
                     IF d = NULL THEN Val(o) ELSE Val(d))

\* o, d: the origin and destination arguments, NULL or Some(point)
generateMockRoutes(o, d) ==
    IF o = NULL \/ d = NULL
    THEN <<>>
    ELSE threeRoutes(Val(o), Val(d))

-----------------------------------------------------------------------------
(* Generator calls: generateMockRoutes applied to two endpoints *)

\* endpoints lie on a (GridSpan+1) x (GridSpan+1) grid of 0.001-degree steps
GridSpan == 2

GenPoints == { Point(377700 + 10 * i, -1224200 + 10 * j) : i, j \in 0..GridSpan }
GenInputs == { NULL } \cup { Some(p) : p \in GenPoints }

GeneratorInit ==
    /\ genOrigin \in GenInputs
    /\ genDestination \in GenInputs
    /\ genRoutes = NULL
    /\ routePath = NULL /\ score = NULL
    /\ cb = NULL /\ heap = <<>> /\ est = NULL
    /\ RecIdle /\ MapIdle /\ DirIdle /\ HistIdle

CallGenerateMockRoutes ==
    /\ genRoutes = NULL
    /\ genRoutes' = Some(generateMockRoutes(genOrigin, genDestination))
    /\ UNCHANGED <<routePath, score, genOrigin, genDestination, cb, heap, est, recVars, mapVars, dirVars, histVars>>

GeneratorSpec == GeneratorInit /\ [][CallGenerateMockRoutes]_vars

-----------------------------------------------------------------------------
(* services/fbiCrimeDataService.js: the simulated estimator *)

\* weight in tenths
highCrimeAreas == <<
    [lat |-> 377740, lng |-> -1224190, weight |-> 8],
    [lat |-> 377760, lng |-> -1224180, weight |-> 9],
    [lat |-> 377750, lng |-> -1224170, weight |-> 7] >>

\* the forEach of lines 116-125: the closest area so far, the first one
\* winning a tie; closestDistance is kept squared, -1 for Number.MAX_VALUE
RECURSIVE closestUpTo(_, _)
closestUpTo(p, i) ==
    IF i = 0 THEN [distSq |-> -1, weight |-> 0]
    ELSE LET prev == closestUpTo(p, i - 1)
             d2   == distanceSq(p, highCrimeAreas[i])
         IN  IF prev.distSq = -1 \/ d2 < prev.distSq
             THEN [distSq |-> d2, weight |-> highCrimeAreas[i].weight]
             ELSE prev

\* proximityFactor that is 1 at every distance
proximityFactorFlat(d2) == 10000

\* Math.max(0, 1 - closestDistance * 100), in units of 10^-4
proximityFactor(d2) == IF d2 >= 10000 THEN 0 ELSE Max(0, 10000 - ISqrt(d2 * 10000))

\* 0.7 + Math.random() * 0.6, in tenths: a value of [0.7, 1.3)
Jitters == { 7, 10, 12 }

\* Math.min(maxValue, maxValue * closestWeight * proximityFactor *
\* randomVariation), in units of 10^-6
getRandomWeightedValue(lat, lng, maxValue, randomVariation) ==
    LET closest == closestUpTo(Point(lat, lng), Len(highCrimeAreas))
    IN  Min(maxValue * 1000000,
            maxValue * closest.weight * proximityFactor(closest.distSq) * randomVariation)

Categories == << "violent-crime", "property-crime", "homicide", "robbery", "aggravated-assault" >>
CategoryMax == << 10, 25, 1, 8, 15 >>

\* crimeRatesByType, a sequence in the order of Categories; jitter[i] is the
\* random variation drawn for category i
crimeRatesByType(lat, lng, jitter) ==
    [i \in 1..Len(Categories) |-> getRandomWeightedValue(lat, lng, CategoryMax[i], jitter[i])]

RECURSIVE sumUpTo(_, _)
sumUpTo(values, i) == IF i = 0 THEN 0 ELSE sumUpTo(values, i - 1) + values[i]

\* Object.values(crimeRatesByType).reduce((sum, value) => sum + value, 0)
totalOf(rates) == sumUpTo(rates, Len(rates))

\* rateSafetyScore with Math.floor in the place of Math.round
rateSafetyScoreFloor(crimeRate) == Max(0, Min(100, (100 * 1000000 - crimeRate) \div 1000000))

\* the service's own calculateSafetyScore(crimeRate), crimeRate in 10^-6:
\* Math.max(0, Math.min(100, Math.round(100 - (crimeRate / 100) * 100)))
rateSafetyScore(crimeRate) == Max(0, Min(100, Round(100 * 1000000 - crimeRate, 1000000)))

\* the object returned at lines 68-74; safetyScore may be undefined in an
\* estimate of another provider, so it is NULL or Some(number)
crimeStatsResult(lat, lng, radius, jitter) ==
    LET rates == crimeRatesByType(lat, lng, jitter)
    IN  [ coordinates    |-> Point(lat, lng),
          radius         |-> radius,
          crimeStats     |-> rates,
          totalCrimeRate |-> totalOf(rates),
          safetyScore    |-> Some(rateSafetyScore(totalOf(rates))) ]

\* the catch block that logs and rethrows
onThrowRethrow(call) ==
    [call EXCEPT !.outcome = "rejected", !.logged = TRUE]

\* the catch block of lines 75-78: console.error, return null
onThrow(call) ==
    [call EXCEPT !.outcome = "resolved", !.result = NULL, !.logged = TRUE]

-----------------------------------------------------------------------------
(* Estimator calls: one call of getCrimeStatsByCoordinates *)

\* coordinates the estimator is called at: a high-crime reference point, the
\* search form's origin, a point between two areas, a point far from all,
\* the reference point of greatest weight (where a rate reaches its cap),
\* the one of least weight, and a point at exactly 0.01 from the nearest
EstPoints == { Point(377740, -1224190), Point(377749, -1224194),
               Point(377790, -1224150), Point(380000, -1230000),
               Point(377760, -1224180), Point(377750, -1224170),
               Point(377740, -1224290) }

\* radius in tenths of a mile: 0.5 from the scoring effect, the default 1
EstRadii == { 5, 10 }

EstimatorInit ==
    /\ \E p \in EstPoints, r \in EstRadii :
          est = [ pc |-> "start", lat |-> p.lat, lng |-> p.lng, radius |-> r,
                  outcome |-> "pending", result |-> NULL,
                  logged |-> FALSE, threw |-> FALSE ]
    /\ routePath = NULL /\ score = NULL
    /\ genOrigin = NULL /\ genDestination = NULL /\ genRoutes = NULL
    /\ cb = NULL /\ heap = <<>>
    /\ RecIdle /\ MapIdle /\ DirIdle /\ HistIdle

EstOthers == <<routePath, score, genOrigin, genDestination, genRoutes, cb, heap, recVars, mapVars, dirVars, histVars>>

\* line 54: the promise of the 300 ms timer is created and awaited
EstAwaitTimer ==
    /\ est.pc = "start"
    /\ est' = [est EXCEPT !.pc = "sleeping"]
    /\ UNCHANGED EstOthers

\* line 54 throws (the Promise constructor or setTimeout fails)
EstAwaitThrows ==
    /\ est.pc = "start"
    /\ est' = [onThrow(est) EXCEPT !.pc = "returned", !.threw = TRUE]
    /\ UNCHANGED EstOthers

\* the timer fires; lines 58-74 run with the five random draws
EstTimerFires ==
    /\ est.pc = "sleeping"
    /\ \E jitter \in [1..Len(Categories) -> Jitters] :
          est' = [est EXCEPT !.pc = "returned", !.outcome = "resolved",
                             !.result = Some(crimeStatsResult(est.lat, est.lng, est.radius, jitter))]
    /\ UNCHANGED EstOthers

\* something in lines 58-74 throws after the timer fired
EstComputeThrows ==
    /\ est.pc = "sleeping"
    /\ est' = [onThrow(est) EXCEPT !.pc = "returned", !.threw = TRUE]
    /\ UNCHANGED EstOthers

EstimatorNext == EstAwaitTimer \/ EstAwaitThrows \/ EstTimerFires \/ EstComputeThrows

EstimatorSpec == EstimatorInit /\ [][EstimatorNext]_vars

-----------------------------------------------------------------------------
(* context/MapContext.js: the per-route callback of the scoring effect *)

MaxSafetyScore == 100

\* crimeData && crimeData.safetyScore: null, undefined and 0 are falsy
hasApiScore(crimeData) ==
    /\ crimeData # NULL
    /\ Val(crimeData).safetyScore # NULL
    /\ Val(Val(crimeData).safetyScore) # 0

\* lines 193-201 on a score object s, apiScore = crimeData.safetyScore
blendScore(s, apiScore) ==
    LET crime == Round(6 * s.crime + 4 * apiScore, 10)
    IN  [s EXCEPT !.crime = crime, !.overall = Round(6 * crime + 4 * s.lighting, 10)]

\* applyCrimeData that takes a missing estimate or score as the score 0
applyCrimeDataDefaultZero(s, crimeData) ==
    IF crimeData = NULL \/ Val(crimeData).safetyScore = NULL
    THEN blendScore(s, 0)
    ELSE blendScore(s, Val(Val(crimeData).safetyScore))

\* lines 189-202: what the score object holds after the if statement
applyCrimeData(s, crimeData) ==
    IF hasApiScore(crimeData)
    THEN blendScore(s, Val(Val(crimeData).safetyScore))
    ELSE s

\* route.path[Math.floor(route.path.length / 2)] || origin
midpointOf(route, o) ==
    LET midpointIndex == Len(route.path) \div 2
    IN  IF midpointIndex + 1 \in 1..Len(route.path)
        THEN route.path[midpointIndex + 1]
        ELSE o

-----------------------------------------------------------------------------
(* Callback runs: lines 173-210 for one route and one estimate *)

BlendEndpoints == { Point(377749, -1224194), Point(377833, -1224167),
                    Point(377600, -1224100) }

\* what getCrimeStatsByCoordinates may resolve to: null, an object without
\* a safetyScore, an object with a safetyScore of 0..100
BlendEstimates ==
    { NULL, Some([safetyScore |-> NULL]) }
        \cup { Some([safetyScore |-> Some(n)]) : n \in 0..MaxSafetyScore }

CallbackInit ==
    /\ \E o \in BlendEndpoints, d \in BlendEndpoints, slot \in 1..3 :
          LET route == generateMockRoutes(Some(o), Some(d))[slot]
          IN  cb = [ pc |-> "await", route |-> route,
                     midpoint |-> midpointOf(route, o),
                     crimeData |-> NULL, safetyScore |-> 0, result |-> NULL ]
    /\ heap = <<>>
    /\ routePath = NULL /\ score = NULL
    /\ genOrigin = NULL /\ genDestination = NULL /\ genRoutes = NULL
    /\ est = NULL
    /\ RecIdle /\ MapIdle /\ DirIdle /\ HistIdle

CbOthers == <<routePath, score, genOrigin, genDestination, genRoutes, est, recVars, mapVars, dirVars, histVars>>

\* lines 179-183: the awaited estimator call resolves
CbResolve ==
    /\ cb.pc = "await"
    /\ \E e \in BlendEstimates : cb' = [cb EXCEPT !.pc = "score", !.crimeData = e]
    /\ UNCHANGED <<heap>>
    /\ UNCHANGED CbOthers

\* line 186: calculateSafetyScore returns a new object
CbScore ==
    /\ cb.pc = "score"
    /\ heap' = Append(heap, calculateSafetyScore(Some(cb.route.path)))
    /\ cb' = [cb EXCEPT !.pc = "blend", !.safetyScore = Len(heap')]
    /\ UNCHANGED CbOthers

\* lines 189-202: the fields of that object are assigned in place
CbBlend ==
    /\ cb.pc = "blend"
    /\ heap' = [heap EXCEPT ![cb.safetyScore] = applyCrimeData(@, cb.crimeData)]
    /\ cb' = [cb EXCEPT !.pc = "return"]
    /\ UNCHANGED CbOthers

\* lines 204-209: { ...route, safetyScore, crimeData: crimeData || null }
CbReturn ==
    /\ cb.pc = "return"
    /\ cb' = [cb EXCEPT !.pc = "done",
                        !.result = Some([ route |-> cb.route,
                                          safetyScore |-> cb.safetyScore,
                                          crimeData |-> cb.crimeData ])]
    /\ UNCHANGED <<heap>>
    /\ UNCHANGED CbOthers

CallbackNext == CbResolve \/ CbScore \/ CbBlend \/ CbReturn

CallbackSpec == CallbackInit /\ [][CallbackNext]_vars

-----------------------------------------------------------------------------
(* Properties of calculateSafetyScore (ScorerSpec) *)

ScoredNonEmpty == routePath # NULL /\ Len(Val(routePath)) > 0 /\ score # NULL

\* C1: for every non-empty path, overall = round(crime*0.6 + lighting*0.4)
\* with crime and lighting the rounded sub-scores of the same result.
C1_OverallFromRoundedParts ==
    ScoredNonEmpty =>
        Val(score).overall = Round(6 * Val(score).crime + 4 * Val(score).lighting, 10)

\* C2: for every path (absent, empty or not), overall, crime and lighting
\* of the result are integers in 0..100.
C2_ScoresInRange ==
    score # NULL =>
        /\ Val(score).overall \in 0..100
        /\ Val(score).crime \in 0..100
        /\ Val(score).lighting \in 0..100

\* a path so close to crime points that 100 - average*100 is below 0
C2_Witness ==
    /\ ScoredNonEmpty
    /\ crimeSum(Val(routePath), Len(Val(routePath))) > 100 * 1000 * Len(Val(routePath))

\* C3: an absent path and an empty path both score {0, 0, 0}.
C3_AbsentOrEmptyIsZero ==
    (score # NULL /\ (routePath = NULL \/ routePath = Some(<<>>))) =>
        Val(score) = ScoreRec(0, 0, 0)

C3_Witness == routePath = Some(<<>>) /\ score # NULL

-----------------------------------------------------------------------------
(* Properties of generateMockRoutes (GeneratorSpec) *)

\* C4: with the origin absent, the destination absent, or both, the result
\* is the empty sequence.
C4_AbsentEndpointNoRoutes ==
    (genRoutes # NULL /\ (genOrigin = NULL \/ genDestination = NULL)) =>
        Val(genRoutes) = <<>>

C4_Witness == genRoutes # NULL /\ genOrigin = NULL /\ genDestination # NULL

BothPresent == genOrigin # NULL /\ genDestination # NULL /\ genRoutes # NULL

\* C5: with both endpoints present there are exactly 3 candidates, each with
\* a path of 5 points that starts at the origin and ends at the destination.
C5_ThreeRoutesBetweenEndpoints ==
    BothPresent =>
        /\ Len(Val(genRoutes)) = 3
        /\ \A i \in 1..Len(Val(genRoutes)) :
              LET path == Val(genRoutes)[i].path
              IN  /\ Len(path) = 5
                  /\ path[1] = Val(genOrigin)
                  /\ path[Len(path)] = Val(genDestination)

C5_Witness == BothPresent /\ genOrigin # genDestination

\* C6: with both endpoints present (equal or not) the paths of the
\* candidates are pairwise distinct.
C6_PathsPairwiseDistinct ==
    BothPresent =>
        \A i, j \in 1..Len(Val(genRoutes)) :
            i # j => Val(genRoutes)[i].path # Val(genRoutes)[j].path

C6_Witness == BothPresent /\ genOrigin = genDestination

-----------------------------------------------------------------------------
(* Properties of the scoring callback (CallbackSpec) *)

CbDone == cb.pc = "done"

\* the score attached to the returned route
AttachedScore == heap[Val(cb.result).safetyScore]

\* what calculateSafetyScore returned for the route of this run
LocalScore == calculateSafetyScore(Some(cb.route.path))

\* C7: with a null estimate, or one without a safetyScore, the attached score
\* equals the local score in all three fields, and crimeData is null when
\* the estimate is null.
C7_NoEstimateKeepsLocal ==
    (CbDone /\ (cb.crimeData = NULL \/ Val(cb.crimeData).safetyScore = NULL)) =>
        /\ AttachedScore = LocalScore
        /\ cb.crimeData = NULL => Val(cb.result).crimeData = NULL

C7_Witness ==
    /\ CbDone
    /\ cb.crimeData # NULL
    /\ Val(cb.crimeData).safetyScore = NULL
    /\ LocalScore.crime > 1

\* C8: for every estimate with a numeric safetyScore e in 0..100, 0 included,
\* crime' = round(local.crime*0.6 + e*0.4), overall' = round(crime'*0.6 +
\* local.lighting*0.4), lighting' = local.lighting.
C8_BlendFormula ==
    (CbDone /\ cb.crimeData # NULL /\ Val(cb.crimeData).safetyScore # NULL) =>
        LET e     == Val(Val(cb.crimeData).safetyScore)
            crime == Round(6 * LocalScore.crime + 4 * e, 10)
        IN  /\ AttachedScore.crime = crime
            /\ AttachedScore.overall = Round(6 * crime + 4 * LocalScore.lighting, 10)
            /\ AttachedScore.lighting = LocalScore.lighting

\* C9: after blending, the object calculateSafetyScore returned still holds
\* the values it was returned with.
C9_LocalScoreNotMutated ==
    cb.pc \in { "return", "done" } => heap[cb.safetyScore] = LocalScore

-----------------------------------------------------------------------------
(* Properties of getCrimeStatsByCoordinates (EstimatorSpec) *)

\* C10: the call never rejects; when something throws inside it, the failure
\* is logged and the call resolves to null.
C10_NeverRejects ==
    /\ est.outcome # "rejected"
    /\ est.threw => (est.outcome = "resolved" /\ est.result = NULL /\ est.logged)

C10_Witness == est.threw /\ est.pc = "returned" /\ est.outcome = "resolved"

-----------------------------------------------------------------------------
(* Claims about the two monotonicity properties of calculateSafetyScore *)

\* the paths the scorer is called with, without the absent one
ScorerPaths == SeqsUpTo(PathPoints, MaxPathLen)

OnCrimePoint(p) ==
    \E i \in 1..Len(mockCrimeData) :
        mockCrimeData[i].lat = p.lat /\ mockCrimeData[i].lng = p.lng

\* at distance 0.01 or more from every crime point
FarFromCrime(p) ==
    \A i \in 1..Len(mockCrimeData) : distanceSq(p, mockCrimeData[i]) >= 10000

AllPoints(path, P(_)) == \A i \in 1..Len(path) : P(path[i])

\* C15: of two paths of the same length, the first with every point on a
\* crime point and the second with every point at 0.01 or more from every
\* crime point, the first has the strictly lower crime sub-score.
C15_OnCrimeBelowFar ==
    (ScoredNonEmpty /\ AllPoints(Val(routePath), OnCrimePoint)) =>
        \A q \in ScorerPaths :
            (Len(q) = Len(Val(routePath)) /\ AllPoints(q, FarFromCrime)) =>
                Val(score).crime < calculateSafetyScore(Some(q)).crime

\* the first path lies on the crime point of least weight only, and a far
\* path of its length with a point at exactly 0.01 is among the second ones
C15_Witness ==
    /\ ScoredNonEmpty
    /\ AllPoints(Val(routePath), LAMBDA p : p = Point(377690, -1224120))
    /\ Len(Val(routePath)) = MaxPathLen
    /\ \E q \in ScorerPaths :
           /\ Len(q) = MaxPathLen /\ AllPoints(q, FarFromCrime)
           /\ \E i \in 1..Len(q) : q[i] = Point(377740, -1224290)

\* within 0.005 (the scorer's test: distance < 0.005) of a lighting point
\* of the given level
NearLevel(p, level) ==
    \E i \in 1..Len(mockLightingData) :
        /\ mockLightingData[i].level = level
        /\ distanceSq(p, mockLightingData[i]) < 2500

NearHigh(p) == NearLevel(p, "high")

NearOnlyLow(p) ==
    NearLevel(p, "low") /\ ~NearLevel(p, "medium") /\ ~NearLevel(p, "high")

\* C16: a non-empty path with every point within 0.005 of a 'high'
\* lighting point has a strictly higher lighting sub-score than a non-empty
\* path with every point within 0.005 of 'low' lighting points only.
C16_HighLitAboveLowLit ==
    (ScoredNonEmpty /\ AllPoints(Val(routePath), NearHigh)) =>
        \A q \in ScorerPaths :
            (Len(q) > 0 /\ AllPoints(q, NearOnlyLow)) =>
                Val(score).lighting > calculateSafetyScore(Some(q)).lighting

\* the first path has a point next to the 'high' lighting point and to no
\* other, and a path next to the 'low' one only exists among the second ones
C16_Witness ==
    /\ ScoredNonEmpty
    /\ AllPoints(Val(routePath), NearHigh)
    /\ \E i \in 1..Len(Val(routePath)) :
           ~NearLevel(Val(routePath)[i], "medium") /\ ~NearLevel(Val(routePath)[i], "low")
    /\ \E q \in ScorerPaths : Len(q) > 0 /\ AllPoints(q, NearOnlyLow)

-----------------------------------------------------------------------------
(* Claims about the figures of the simulated estimator *)

EstResolved == est # NULL /\ est.pc = "returned" /\ est.result # NULL

\* C20: in every result of the simulated estimator, totalCrimeRate is the
\* sum of the five category rates and safetyScore is
\* clamp(round(100 - totalCrimeRate), 0, 100) (rates in units of 10^-6).
C20_TotalAndScoreFromRates ==
    EstResolved =>
        LET r       == Val(est.result)
            total   == r.crimeStats[1] + r.crimeStats[2] + r.crimeStats[3]
                       + r.crimeStats[4] + r.crimeStats[5]
            rounded == (100000000 - total + 500000) \div 1000000
            clamped == IF rounded < 0 THEN 0 ELSE IF rounded > 100 THEN 100 ELSE rounded
        IN  /\ Len(r.crimeStats) = 5
            /\ r.totalCrimeRate = total
            /\ r.safetyScore = Some(clamped)

\* a result near a high-crime area whose categories drew different jitter,
\* one of them reaching its cap, and whose 100 - totalCrimeRate has a
\* fraction of a half or more
C20_Witness ==
    /\ EstResolved
    /\ Val(est.result).crimeStats[1] = 10 * 1000000
    /\ Val(est.result).crimeStats[2] < 25 * 1000000
    /\ Val(est.result).crimeStats[2] > 0
    /\ (100000000 - Val(est.result).totalCrimeRate) % 1000000 >= 500000

-----------------------------------------------------------------------------
(* services/fbiCrimeDataService.js: getSafetyRecommendations *)

\* a crime estimate as getSafetyRecommendations reads it: crimeStats is NULL
\* (no such property) or Some(rates in the order of Categories), rates and
\* totalCrimeRate in units of 10^-6; totalCrimeRate is a number in every
\* estimate, which "|| 0" (line 176) leaves as it is
Estimate(stats, total) == [crimeStats |-> stats, totalCrimeRate |-> total]

\* rate > threshold with >= in the place of >
exceedsOrEquals(rate, threshold) == rate >= threshold * 1000000

\* rate > threshold, the comparison of lines 183, 187, 191 and 198
exceeds(rate, threshold) == rate > threshold * 1000000

\* crimeStats.crimeStats[category], category given by its place in Categories
categoryRate(crimeStats, i) == Val(crimeStats.crimeStats)[i]

\* lines 182-195: the pushes guarded by if (crimeStats.crimeStats)
categoryPushes(rec, crimeStats) ==
    IF crimeStats.crimeStats = NULL THEN rec
    ELSE LET r1 == IF exceeds(categoryRate(crimeStats, 1), 5)
                   THEN Append(rec, "Try to travel with a companion in this area")
                   ELSE rec
             r2 == IF exceeds(categoryRate(crimeStats, 2), 15)
                   THEN Append(r1, "Keep valuables out of sight or securely stored")
                   ELSE r1
             r3 == IF exceeds(categoryRate(crimeStats, 4), 5)
                   THEN Append(Append(r2, "Avoid displaying expensive items in public"),
                               "Stay in well-lit areas at night")
                   ELSE r2
         IN  r3

\* lines 198-203: the pushes on the overall rate
totalPushes(rec, totalRate) ==
    IF exceeds(totalRate, 40)
    THEN Append(Append(rec, "Consider alternate routes if possible"),
                "Stay on main streets and avoid shortcuts through less populated areas")
    ELSE IF totalRate < 10 * 1000000
    THEN Append(rec, "This area generally has lower crime rates compared to surrounding areas")
    ELSE rec

\* getSafetyRecommendations that pushes the general recommendation after
\* the specific ones
getSafetyRecommendationsBaselineLast(crimeStats) ==
    IF crimeStats = NULL THEN <<>>
    ELSE Append(totalPushes(categoryPushes(<<>>, Val(crimeStats)), Val(crimeStats).totalCrimeRate),
                "Stay aware of your surroundings at all times")

\* crimeStats: NULL or Some(estimate)
getSafetyRecommendations(crimeStats) ==
    IF crimeStats = NULL THEN <<>>
    ELSE LET totalRate == Val(crimeStats).totalCrimeRate
             rec0      == << "Stay aware of your surroundings at all times" >>
         IN  totalPushes(categoryPushes(rec0, Val(crimeStats)), totalRate)

-----------------------------------------------------------------------------
(* Recommendation calls: getSafetyRecommendations applied to an estimate *)

\* rates on both sides of the thresholds 5, 15 and 5
ViolentRates  == { 0, 5000000, 5000001 }
PropertyRates == { 0, 15000000, 15000001 }
RobberyRates  == { 5000000, 8000000 }
\* overall rates on both sides of 10 and 40
TotalRates    == { 0, 9999999, 10000000, 40000000, 40000001 }

RecommendInputs ==
    { NULL } \cup
    { Some(Estimate(stats, total)) :
        stats \in { NULL } \cup { Some(<< v, p, 0, r, 0 >>) :
                                     v \in ViolentRates, p \in PropertyRates, r \in RobberyRates },
        total \in TotalRates }

RecommendInit ==
    /\ crimeStatsArg \in RecommendInputs
    /\ recommendations = NULL
    /\ routePath = NULL /\ score = NULL
    /\ genOrigin = NULL /\ genDestination = NULL /\ genRoutes = NULL
    /\ cb = NULL /\ heap = <<>> /\ est = NULL
    /\ MapIdle /\ DirIdle /\ HistIdle

CallGetSafetyRecommendations ==
    /\ recommendations = NULL
    /\ recommendations' = Some(getSafetyRecommendations(crimeStatsArg))
    /\ UNCHANGED <<crimeStatsArg, routePath, score, genOrigin, genDestination,
                   genRoutes, cb, heap, est, mapVars,
                   dirVars, histVars>>

RecommendSpec == RecommendInit /\ [][CallGetSafetyRecommendations]_vars

-----------------------------------------------------------------------------
(* Claims about getSafetyRecommendations *)

Recommended == recommendations # NULL

\* C18: for a null argument the result is the empty sequence; for every
\* other argument the result's first element is the baseline
\* recommendation.
C18_EmptyOrBaselineFirst ==
    Recommended =>
        IF crimeStatsArg = NULL
        THEN Val(recommendations) = <<>>
        ELSE /\ Len(Val(recommendations)) >= 1
             /\ Head(Val(recommendations)) = "Stay aware of your surroundings at all times"

\* an estimate for which a specific recommendation is pushed as well
C18_Witness ==
    /\ Recommended /\ crimeStatsArg # NULL
    /\ Len(Val(recommendations)) >= 2

\* every recommendation the function can give, in the order of the pushes
AllAdvice == <<
    "Stay aware of your surroundings at all times",
    "Try to travel with a companion in this area",
    "Keep valuables out of sight or securely stored",
    "Avoid displaying expensive items in public",
    "Stay in well-lit areas at night",
    "Consider alternate routes if possible",
    "Stay on main streets and avoid shortcuts through less populated areas",
    "This area generally has lower crime rates compared to surrounding areas" >>

\* the rate of category i of an estimate, 0 when it has no category rates
RateOf(e, i) == IF e.crimeStats = NULL THEN 0 ELSE e.crimeStats[1][i]

\* the condition under which the claim has AllAdvice[k] in the output
Advised(e, k) ==
    CASE k = 1 -> TRUE
      [] k = 2 -> RateOf(e, 1) > 5000000
      [] k = 3 -> RateOf(e, 2) > 15000000
      [] k \in {4, 5} -> RateOf(e, 4) > 5000000
      [] k \in {6, 7} -> e.totalCrimeRate > 40000000
      [] k = 8 -> ~(e.totalCrimeRate > 40000000) /\ e.totalCrimeRate < 10000000

RECURSIVE AdviceUpTo(_, _)
AdviceUpTo(e, k) ==
    IF k = 0 THEN <<>>
    ELSE IF Advised(e, k) THEN Append(AdviceUpTo(e, k - 1), AllAdvice[k])
    ELSE AdviceUpTo(e, k - 1)

HasAdvice(rec, k) == \E i \in 1..Len(rec) : rec[i] = AllAdvice[k]

-----------------------------------------------------------------------------
(* MapProvider: the context state, its two effects and its setters.  The
   state that neither the effects nor the routes read (mapCenter, zoom and
   the overlay switches) is left out.

   A run of the route effect with both endpoints set is a query: it sets
   isLoading and arms a 1000 ms timer (phase "timer"); the timer's callback
   generates the candidates and calls the estimator once per candidate
   (phase "estimating"); when the last of these calls has resolved, the
   continuation of Promise.all stores the routes.  Timers of equal delay
   fire in the order they were armed.  The provider awaits whatever promise
   the estimator returns, so an estimator call resolves at any time after
   it was made, in any order with the other calls and with the user's
   actions; the estimator bundled with the provider simulates the remote
   call with a 300 ms timer. *)

\* most runs of the route effect that start a query
MaxQueries == 2

\* the coordinates the search form sets
SearchOrigin == Point(377749, -1224194)
SearchDestination == Point(377833, -1224167)

\* locations a caller passes to setOriginLocation / setDestinationLocation
MapLocations == { SearchOrigin, SearchDestination }

\* the provider's estimator calls resolve to null or to the estimate of the
\* midpoint (radius 0.5) with this draw of the five random variations
ProviderJitter == [i \in 1..Len(Categories) |-> 10]

ProviderEstimates(midpoint) ==
    { NULL, Some(crimeStatsResult(midpoint.lat, midpoint.lng, 5, ProviderJitter)) }

\* routeWithScore that attaches the estimate but leaves it out of the score
routeWithScoreLocalOnly(route, crimeData) ==
    [ id          |-> route.id,
      name        |-> route.name,
      duration    |-> route.duration,
      distance    |-> route.distance,
      path        |-> route.path,
      safetyScore |-> calculateSafetyScore(Some(route.path)),
      crimeData   |-> crimeData ]

\* lines 173-210 as a value: the object the callback of newRoutes.map
\* returns for a route once its estimator call resolved to crimeData
routeWithScore(route, crimeData) ==
    [ id          |-> route.id,
      name        |-> route.name,
      duration    |-> route.duration,
      distance    |-> route.distance,
      path        |-> route.path,
      safetyScore |-> applyCrimeData(calculateSafetyScore(Some(route.path)), crimeData),
      crimeData   |-> crimeData ]

\* generateMockRoutes for every pair of locations, evaluated once
CandidatesOf ==
    [o \in MapLocations |-> [d \in MapLocations |->
        generateMockRoutes(Some(o), Some(d))]]

\* for every pair of locations and every candidate, what the callback of
\* newRoutes.map can return: one object per outcome of its estimator call,
\* evaluated once
CallbackReturns ==
    [o \in MapLocations |-> [d \in MapLocations |->
        [slot \in 1..Len(CandidatesOf[o][d]) |->
            LET route == CandidatesOf[o][d][slot]
            IN  { routeWithScore(route, crimeData) :
                    crimeData \in ProviderEstimates(midpointOf(route, o)) }]]]

\* a run of the route effect that found both endpoints set; o and d are the
\* values its closure holds
newQuery(qid, o, d) ==
    [ qid |-> qid, origin |-> o, destination |-> d, phase |-> "timer",
      newRoutes |-> <<>>, results |-> <<>>, hung |-> {} ]

RemoveAt(seq, i) == SubSeq(seq, 1, i - 1) \o SubSeq(seq, i + 1, Len(seq))

MapOthers == <<routePath, score, genOrigin, genDestination, genRoutes, cb, heap, est,
               recVars, dirVars, histVars>>

MapInit ==
    /\ origin = NULL /\ destination = NULL
    /\ routes = <<>> /\ selectedRoute = NULL
    /\ isLoading = FALSE
    /\ queries = <<>> /\ started = 0 /\ published = 0
    /\ routePath = NULL /\ score = NULL
    /\ genOrigin = NULL /\ genDestination = NULL /\ genRoutes = NULL
    /\ cb = NULL /\ heap = <<>> /\ est = NULL
    /\ RecIdle /\ DirIdle /\ HistIdle

\* the route effect (lines 162-223) up to setTimeout, run after a render in
\* which origin or destination changed; o and d are their new values
RunRouteEffect(o, d) ==
    IF o # NULL /\ d # NULL
    THEN /\ started < MaxQueries
         /\ isLoading' = TRUE
         /\ queries' = Append(queries, newQuery(started + 1, Val(o), Val(d)))
         /\ started' = started + 1
    ELSE UNCHANGED <<isLoading, queries, started>>

\* setOriginLocation(location), location null or a new object
SetOriginLocation(location) ==
    /\ origin' = location
    /\ RunRouteEffect(location, destination)
    /\ UNCHANGED <<destination, routes, selectedRoute, published>>
    /\ UNCHANGED MapOthers

\* setDestinationLocation(location)
SetDestinationLocation(location) ==
    /\ destination' = location
    /\ RunRouteEffect(origin, location)
    /\ UNCHANGED <<origin, routes, selectedRoute, published>>
    /\ UNCHANGED MapOthers

\* the search form submitted with both inputs filled: both setters run in
\* one event handler, on the state of the same render, and the effect runs
\* once
SearchSubmit ==
    /\ origin' = Some(SearchOrigin)
    /\ destination' = Some(SearchDestination)
    /\ RunRouteEffect(Some(SearchOrigin), Some(SearchDestination))
    /\ UNCHANGED <<routes, selectedRoute, published>>
    /\ UNCHANGED MapOthers

\* clearRoutes(); the effect of lines 226-230 then finds routes empty
ClearRoutes ==
    /\ origin' = NULL /\ destination' = NULL
    /\ routes' = <<>>
    /\ selectedRoute' = NULL
    /\ UNCHANGED <<isLoading, queries, started, published>>
    /\ UNCHANGED MapOthers

\* a route card is clicked: setSelectedRoute(route)
SelectRoute(i) ==
    /\ i \in 1..Len(routes)
    /\ selectedRoute # Some(routes[i])
    /\ selectedRoute' = Some(routes[i])
    /\ UNCHANGED <<origin, destination, routes, isLoading, queries, started, published>>
    /\ UNCHANGED MapOthers

\* the oldest armed timer fires: lines 169-184, up to the await of each
\* callback (generateMockRoutes gives three routes for two endpoints)
TimerFires ==
    \E i \in 1..Len(queries) :
        /\ queries[i].phase = "timer"
        /\ \A j \in 1..(i - 1) : queries[j].phase # "timer"
        /\ LET q         == queries[i]
               newRoutes == CandidatesOf[q.origin][q.destination]
           IN  queries' = [queries EXCEPT ![i] =
                              [q EXCEPT !.phase = "estimating",
                                        !.newRoutes = newRoutes,
                                        !.results = [s \in 1..Len(newRoutes) |-> NULL]]]
        /\ UNCHANGED <<origin, destination, routes, selectedRoute, isLoading,
                       started, published>>
        /\ UNCHANGED MapOthers

\* Publish that selects the last route instead of the first
PublishSelectsLast(i, routesWithScores) ==
    /\ routes' = routesWithScores
    /\ selectedRoute' = IF Len(routesWithScores) > 0
                        THEN Some(routesWithScores[Len(routesWithScores)])
                        ELSE NULL
    /\ isLoading' = FALSE
    /\ queries' = RemoveAt(queries, i)
    /\ published' = queries[i].qid

\* Publish without setIsLoading(false)
PublishStillLoading(i, routesWithScores) ==
    /\ routes' = routesWithScores
    /\ selectedRoute' = IF Len(routesWithScores) > 0
                        THEN Some(routesWithScores[1])
                        ELSE NULL
    /\ isLoading' = isLoading
    /\ queries' = RemoveAt(queries, i)
    /\ published' = queries[i].qid

\* lines 213-220, run when Promise.all resolved for query i with these
\* results, then the effect of lines 226-230
Publish(i, routesWithScores) ==
    /\ routes' = routesWithScores
    /\ selectedRoute' = IF Len(routesWithScores) > 0
                        THEN Some(routesWithScores[1])
                        ELSE NULL
    /\ isLoading' = FALSE
    /\ queries' = RemoveAt(queries, i)
    /\ published' = queries[i].qid

\* the estimator call for one candidate of query i resolves: lines 186-209
\* run for that candidate and return routeWithScore, and when it was the
\* last call outstanding the continuation of Promise.all runs in the same
\* task
EstimatorResolves(i, slot, returned) ==
    /\ i \in 1..Len(queries)
    /\ queries[i].phase = "estimating"
    /\ slot \in 1..Len(queries[i].results)
    /\ queries[i].results[slot] = NULL
    /\ slot \notin queries[i].hung
    /\ LET q       == queries[i]
           results == [q.results EXCEPT ![slot] = Some(returned)]
       IN  IF \A s \in 1..Len(results) : results[s] # NULL
           THEN Publish(i, [s \in 1..Len(results) |-> Val(results[s])])
           ELSE /\ queries' = [queries EXCEPT ![i] = [q EXCEPT !.results = results]]
                /\ UNCHANGED <<routes, selectedRoute, isLoading, published>>
    /\ UNCHANGED <<origin, destination, started>>
    /\ UNCHANGED MapOthers

\* some outstanding estimator call resolves to one of its outcomes
SomeEstimatorResolves ==
    \E i \in 1..Len(queries) :
        \E slot \in 1..Len(queries[i].results) :
            \E returned \in CallbackReturns[queries[i].origin][queries[i].destination][slot] :
                EstimatorResolves(i, slot, returned)

UserAction ==
    \/ \E location \in { NULL } \cup { Some(l) : l \in MapLocations } :
           SetOriginLocation(location)
    \/ \E location \in { NULL } \cup { Some(l) : l \in MapLocations } :
           SetDestinationLocation(location)
    \/ SearchSubmit
    \/ ClearRoutes
    \/ \E i \in 1..3 : SelectRoute(i)

Next == UserAction \/ TimerFires \/ SomeEstimatorResolves

Spec == MapInit /\ [][Next]_vars

-----------------------------------------------------------------------------
(* MapProvider with an estimator whose calls may never resolve *)

\* the estimator call for one candidate of query i is one that never
\* resolves: the promise awaited at line 179 stays pending
EstimatorHangs(i, slot) ==
    /\ i \in 1..Len(queries)
    /\ queries[i].phase = "estimating"
    /\ slot \in 1..Len(queries[i].results)
    /\ queries[i].results[slot] = NULL
    /\ slot \notin queries[i].hung
    /\ queries' = [queries EXCEPT ![i] = [@ EXCEPT !.hung = @ \cup { slot }]]
    /\ UNCHANGED <<origin, destination, routes, selectedRoute, isLoading, started, published>>
    /\ UNCHANGED MapOthers

SomeEstimatorHangs ==
    \E i \in 1..Len(queries) :
        \E slot \in 1..Len(queries[i].results) : EstimatorHangs(i, slot)

HangNext == UserAction \/ TimerFires \/ SomeEstimatorResolves \/ SomeEstimatorHangs

HangSpec == MapInit /\ [][HangNext]_vars

-----------------------------------------------------------------------------
(* MapProvider with an estimator that resolves every call to null; timers
   fire and the estimator's promises are settled, so both are fair *)

SomeEstimatorFails ==
    \E i \in 1..Len(queries) :
        \E slot \in 1..Len(queries[i].results) :
            \E returned \in CallbackReturns[queries[i].origin][queries[i].destination][slot] :
                /\ returned.crimeData = NULL
                /\ EstimatorResolves(i, slot, returned)

FailingNext == UserAction \/ TimerFires \/ SomeEstimatorFails

FailingSpec ==
    /\ MapInit /\ [][FailingNext]_vars
    /\ WF_vars(TimerFires) /\ WF_vars(SomeEstimatorFails)

-----------------------------------------------------------------------------
(* Claims about the MapProvider's queries *)

\* the paths of a sequence of routes, in order
PathsOf(rs) == [i \in 1..Len(rs) |-> rs[i].path]

\* routes holds the candidates generated for the endpoints o and d
RoutesAreFor(rs, o, d) ==
    /\ Len(rs) > 0
    /\ PathsOf(rs) = PathsOf(generateMockRoutes(o, d))

\* C11: a hung estimator call cannot block a query: while a query is in
\* flight the provider always has a step of its own left to take (a timer
\* to fire, a call to settle or to give up on as null), so that the query
\* gets published and isLoading reset.
C11_HungCallCannotBlock ==
    queries # <<>> => ENABLED (TimerFires \/ SomeEstimatorResolves)

C13_EndpointChangeDiscards ==
    [][ ( /\ origin' # origin \/ destination' # destination
          /\ RoutesAreFor(routes, origin, destination) )
        => \A i \in 1..Len(routes') :
              \A j \in 1..Len(routes) : routes'[i].path # routes[j].path ]_vars

\* the local score of every path the provider can publish, evaluated once
LocalScoreOfPath ==
    [path \in UNION { { CandidatesOf[o][d][slot].path : slot \in 1..3 } :
                        o \in MapLocations, d \in MapLocations }
        |-> calculateSafetyScore(Some(path))]

\* query k is in flight
InFlight(k) == \E i \in 1..Len(queries) : queries[i].qid = k

\* routes holds what query k published: three routes in slot order, each
\* with its local score and no estimate, and isLoading is false
PublishedLocalOnly(k) ==
    /\ published = k
    /\ ~isLoading
    /\ [i \in 1..Len(routes) |-> routes[i].id] = << "route-1", "route-2", "route-3" >>
    /\ \A i \in 1..Len(routes) :
          /\ routes[i].safetyScore = LocalScoreOfPath[routes[i].path]
          /\ routes[i].crimeData = NULL

\* C14: when the estimator resolves every call to null, every query in
\* flight is eventually published with one route per candidate, each with
\* its locally computed score, and isLoading false.
C14_NullEstimatesStillPublish ==
    \A k \in 1..MaxQueries : [](InFlight(k) => <>PublishedLocalOnly(k))

\* the second of two overlapping queries has published its three routes
C14_Witness ==
    /\ PublishedLocalOnly(2)
    /\ queries = <<>>
    /\ RoutesAreFor(routes, origin, destination)

-----------------------------------------------------------------------------
(* Claim about the estimator's proximity *)

OnReferencePoint(p) ==
    \E i \in 1..Len(highCrimeAreas) :
        highCrimeAreas[i].lat = p.lat /\ highCrimeAreas[i].lng = p.lng

\* at distance 0.01 or more from every reference point
FarFromReference(p) ==
    \A i \in 1..Len(highCrimeAreas) : distanceSq(p, highCrimeAreas[i]) >= 10000

\* the safetyScore of every estimate the simulator can give at a
\* coordinate far from the reference points, evaluated once
FarSafetyScores ==
    { Val(crimeStatsResult(p.lat, p.lng, r, jitter).safetyScore) :
        p \in { q \in EstPoints : FarFromReference(q) },
        r \in EstRadii,
        jitter \in [1..Len(Categories) -> Jitters] }

\* C21: whatever the jitter of either call, an estimate at a high-crime
\* reference point has a strictly lower safetyScore than an estimate at a
\* coordinate 0.01 or more from every reference point.
C21_OnReferenceBelowFar ==
    (EstResolved /\ OnReferencePoint(Point(est.lat, est.lng))) =>
        \A far \in FarSafetyScores : Val(Val(est.result).safetyScore) < far

\* an estimate at the reference point of least weight with the least jitter
\* in every category, and far coordinates to compare it with, one of them at
\* exactly 0.01
C21_Witness ==
    /\ EstResolved
    /\ est.lat = 377750 /\ est.lng = -1224170
    /\ Val(est.result).crimeStats[1] = 10 * 7 * 7 * 10000
    /\ Val(est.result).crimeStats[2] = 25 * 7 * 7 * 10000
    /\ FarSafetyScores # {}
    /\ FarFromReference(Point(377740, -1224290))

-----------------------------------------------------------------------------
(* Claims about the formulas of the two sub-scores *)

\* the crime points at distance strictly below 0.01 from p, by index
CrimeNear(p) ==
    { j \in 1..Len(mockCrimeData) : distanceSq(p, mockCrimeData[j]) < 10000 }

\* the sum of the values of a function with a finite domain
RECURSIVE SumOver(_)
SumOver(f) ==
    IF DOMAIN f = {} THEN 0
    ELSE LET x == CHOOSE y \in DOMAIN f : TRUE
         IN  f[x] + SumOver([y \in DOMAIN f \ { x } |-> f[y]])

\* c.weight * (1 - 100 * d(p, c)) in units of 10^-5
WeightedCloseness(p, c) == c.weight * (10000 - ISqrt(distanceSq(p, c) * 10000))

\* S of the claim: over every path point and every crime point near it
CrimeS(path) ==
    SumOver([i \in 1..Len(path) |->
        SumOver([j \in CrimeNear(path[i]) |->
            WeightedCloseness(path[i], mockCrimeData[j])])])

\* round(clamp(num / den, 0, 100)) for den > 0
RoundClamped(num, den) ==
    LET clamped == IF num < 0 THEN 0 ELSE IF num > 100 * den THEN 100 * den ELSE num
    IN  (2 * clamped + den) \div (2 * den)

\* C23: the crime sub-score of a non-empty path of n points is
\* round(clamp(100 - 100 * S / n, 0, 100)), S the sum over every path point
\* and every crime point strictly closer than 0.01 of weight * (1 - 100 * d).
C23_CrimeSubScoreFormula ==
    ScoredNonEmpty =>
        LET path == Val(routePath)
            n    == Len(path)
        IN  Val(score).crime = RoundClamped(100 * 100000 * n - 100 * CrimeS(path), 100000 * n)

\* a path with a point that has several crime points within 0.01 and a
\* point that has one at exactly 0.01, whose sub-score is not clamped
C23_Witness ==
    /\ ScoredNonEmpty
    /\ \E i \in 1..Len(Val(routePath)) : Cardinality(CrimeNear(Val(routePath)[i])) >= 2
    /\ \E i \in 1..Len(Val(routePath)) : Val(routePath)[i] = Point(377740, -1224290)
    /\ Val(score).crime \in 1..99

\* the level floors of the lighting points strictly closer than 0.005 to p,
\* in tenths
FloorsNear(p) ==
    { IF mockLightingData[j].level = "high" THEN 9
      ELSE IF mockLightingData[j].level = "medium" THEN 6 ELSE 3 :
        j \in { k \in 1..Len(mockLightingData) :
                  distanceSq(p, mockLightingData[k]) < 2500 } }

\* L(p) of the claim, in tenths
LightingL(p) ==
    LET values == { 5 } \cup FloorsNear(p)
    IN  CHOOSE v \in values : \A w \in values : w <= v

C28_LightingAtLeastFifty ==
    ScoredNonEmpty =>
        /\ Val(score).lighting >= 50
        /\ AllPoints(Val(routePath), LAMBDA p : FloorsNear(p) \subseteq { 3 })
               => Val(score).lighting = 50

\* a path with one point next to the 'low' lighting point only and one next
\* to no lighting point
C28_Witness ==
    /\ ScoredNonEmpty
    /\ \E i \in 1..Len(Val(routePath)) : FloorsNear(Val(routePath)[i]) = { 3 }
    /\ \E i \in 1..Len(Val(routePath)) : FloorsNear(Val(routePath)[i]) = {}
    /\ Val(score).lighting = 50

-----------------------------------------------------------------------------
(* Claims about what a completed query publishes *)

\* C22: a step in which a query completes sets selectedRoute to the first
\* published route, and that route is the generator's slot 0, 'route-1',
\* whatever the scores of the candidates.
C22_FirstSlotSelected ==
    [][ published' # published =>
            /\ Len(routes') > 0
            /\ selectedRoute' = Some(routes'[1])
            /\ routes'[1].id = "route-1"
            /\ routes'[1].name = "Recommended Route" ]_vars

\* a query has completed, the first route is selected, and another route
\* has the higher overall score
C22_Witness ==
    /\ published > 0 /\ Len(routes) = 3
    /\ selectedRoute = Some(routes[1])
    /\ \E i \in 2..3 : routes[i].safetyScore.overall > routes[1].safetyScore.overall

\* the slots of a query whose estimator call has not resolved
Outstanding(q) == { s \in 1..Len(q.results) : q.results[s] = NULL }

\* C25: a step publishes routes for a query only when the query's last
\* outstanding estimator call resolves, and then the query is gone; the
\* routes are the candidates in slot order, the ones resolved earlier
\* unchanged, each with the score that its own path and its own estimate
\* give.
C25_JoinedInSlotOrder ==
    [][ published' # published =>
            \E i \in 1..Len(queries) :
                LET q == queries[i]
                IN  /\ q.qid = published'
                    /\ \A j \in 1..Len(queries') : queries'[j].qid # q.qid
                    /\ q.phase = "estimating"
                    /\ Cardinality(Outstanding(q)) = 1
                    /\ Len(routes') = Len(q.newRoutes)
                    /\ \A s \in 1..Len(routes') :
                          /\ routes'[s].id = q.newRoutes[s].id
                          /\ routes'[s].path = q.newRoutes[s].path
                          /\ s \notin Outstanding(q) => routes'[s] = Val(q.results[s])
                          /\ routes'[s].safetyScore =
                                 applyCrimeData(LocalScoreOfPath[routes'[s].path],
                                                routes'[s].crimeData) ]_vars

\* a query has published routes of which the first has no estimate and the
\* second has one that changed its score
C25_Witness ==
    /\ published > 0 /\ Len(routes) = 3
    /\ routes[1].crimeData = NULL
    /\ routes[2].crimeData # NULL
    /\ routes[2].safetyScore # LocalScoreOfPath[routes[2].path]

\* C29: in the state clearRoutes leaves (no endpoints, no routes, no
\* selection), routes stays empty and selectedRoute null for as long as the
\* endpoints stay unset.
C29_ClearIsDurable ==
    [][ ( /\ origin = NULL /\ destination = NULL
          /\ routes = <<>> /\ selectedRoute = NULL
          /\ origin' = NULL /\ destination' = NULL )
        => (routes' = <<>> /\ selectedRoute' = NULL) ]_vars

\* C30: isLoading is true in every state in which a query is in flight.
C30_LoadingWhileInFlight ==
    queries # <<>> => isLoading


-----------------------------------------------------------------------------
(* The directions-based MapProvider: calculateRoutes.  It asks the
   directions service for routes, samples 3 to 5 points of each route, asks
   the estimator for each sampled point, hands the estimator's answers to
   calculateSafetyScore, stores the processed routes and selects the first
   of them after sorting by safetyScore, descending. *)

MaxDirPending == 2
MaxDirRoutes == 2

\* Math.min(5, Math.max(3, Math.floor(points.length / 10)))
sampleSize(pointsLength) == Min(5, Max(3, pointsLength \div 10))

\* the estimator's answer for one sampled point: an estimate object, which
\* has coordinates, radius, crimeStats, totalCrimeRate and safetyScore but no
\* lat and no lng of its own
Estimated(safetyScore) == Some([safetyScore |-> safetyScore])

\* what the directions service and the estimator can answer for one route:
\* the length of its overview_path and the run of estimates of its samples
DirPointCounts == {0, 12, 60}
DirEstimateRuns == {"low", "high", "failed"}
DirectionsRoutes == [pointsLength : DirPointCounts, estimates : DirEstimateRuns]
DirectionsResults == UNION {[1..n -> DirectionsRoutes] : n \in 0..MaxDirRoutes}
DirLocations == {SearchOrigin}
TravelModes == {"WALKING", "DRIVING"}

\* crimeDataResults of a route: one estimator answer per sampled point
\* (null is what getCrimeStatsByCoordinates returns from its catch)
crimeDataResultsOf(route) ==
    [i \in 1..sampleSize(route.pointsLength) |->
        CASE route.estimates = "low" -> Estimated(35)
          [] route.estimates = "high" -> Estimated(80)
          [] OTHER -> IF i = 2 THEN NULL ELSE Estimated(80)]

RECURSIVE estimateSum(_, _)
estimateSum(crimeDataResults, i) ==
    IF i = 0 THEN 0
    ELSE estimateSum(crimeDataResults, i - 1) + Val(crimeDataResults[i]).safetyScore

\* calculateSafetyScore that averages the safetyScore of the estimates it is
\* handed instead of measuring distances from their missing lat and lng
calculateSafetyScoreFromEstimates(crimeDataResults) ==
    LET n == Len(crimeDataResults)
        mean == Round(estimateSum(crimeDataResults, n), n)
    IN  ScoreRec(mean, mean, 50)

\* pointCrimeScore of an element that has no lat and no lng: every distance
\* is NaN, NaN < 0.01 is false for every crime point, nothing is added
crimeDataPointCrimeScore(crimeData) == 0

\* pointLightingScore of such an element: NaN < 0.005 is false for every
\* lighting point, the default 0.5 stays (in tenths)
crimeDataPointLightingScore(crimeData) == 5

RECURSIVE crimeDataCrimeSum(_, _)
crimeDataCrimeSum(crimeDataResults, i) ==
    IF i = 0 THEN 0
    ELSE crimeDataCrimeSum(crimeDataResults, i - 1)
         + crimeDataPointCrimeScore(Val(crimeDataResults[i]))

RECURSIVE crimeDataLightingSum(_, _)
crimeDataLightingSum(crimeDataResults, i) ==
    IF i = 0 THEN 0
    ELSE crimeDataLightingSum(crimeDataResults, i - 1)
         + crimeDataPointLightingScore(Val(crimeDataResults[i]))

\* calculateSafetyScore(crimeDataResults), for a non-empty array of objects:
\* lines 44-111 of safetyUtils with the sums above
calculateSafetyScoreOfCrimeData(crimeDataResults) ==
    LET n        == Len(crimeDataResults)
        den      == n * 1000
        crimeNum == clampScore(100 * den - crimeDataCrimeSum(crimeDataResults, n), den)
        lightNum == clampScore(10000 * crimeDataLightingSum(crimeDataResults, n), den)
        overallNum == 6 * crimeNum + 4 * lightNum
    IN  ScoreRec(Round(overallNum, 10 * den),
                 Round(crimeNum, den),
                 Round(lightNum, den))

\* the callback of result.routes.map throws: points[0] is undefined when the
\* overview_path is empty, and calculateSafetyScore reads .lat of a null
\* element
processingThrows(route) ==
    \/ route.pointsLength = 0
    \/ \E i \in 1..sampleSize(route.pointsLength) : crimeDataResultsOf(route)[i] = NULL

\* the object the callback returns for the route at position index (0-based)
processedRoute(route, index) ==
    [index |-> index,
     points |-> route.pointsLength,
     safetyScore |-> calculateSafetyScoreOfCrimeData(crimeDataResultsOf(route))]

processedRoutesOf(result) == [i \in 1..Len(result) |-> processedRoute(result[i], i - 1)]

\* the directions results whose processing throws, and for the others the
\* array Promise.all resolves to
ThrowingResults ==
    {result \in DirectionsResults : \E i \in 1..Len(result) : processingThrows(result[i])}
ProcessedRoutes ==
    [result \in DirectionsResults \ ThrowingResults |-> processedRoutesOf(result)]

\* (a, b) => b.safetyScore - a.safetyScore: both operands are the objects
\* calculateSafetyScore returns, each converts to NaN, the difference is NaN,
\* and sort takes a NaN from its comparator as +0
safetyComparator(a, b) == 0

\* s, sorted, with r inserted behind every element the comparator does not
\* put after it (sort is stable)
RECURSIVE insertSorted(_, _)
insertSorted(s, r) ==
    IF s = <<>> THEN <<r>>
    ELSE IF safetyComparator(Head(s), r) <= 0
         THEN <<Head(s)>> \o insertSorted(Tail(s), r)
         ELSE <<r>> \o s

\* [...processedRoutes].sort(comparator)
RECURSIVE sortedCopy(_)
sortedCopy(processedRoutes) ==
    IF processedRoutes = <<>> THEN <<>>
    ELSE insertSorted(sortedCopy(SubSeq(processedRoutes, 1, Len(processedRoutes) - 1)),
                      processedRoutes[Len(processedRoutes)])

DirOthers == <<routePath, score, genOrigin, genDestination, genRoutes, cb, heap, est,
               recVars, mapVars, histVars>>

DirInit ==
    /\ routePath = NULL /\ score = NULL
    /\ genOrigin = NULL /\ genDestination = NULL /\ genRoutes = NULL
    /\ cb = NULL /\ heap = <<>> /\ est = NULL
    /\ RecIdle /\ MapIdle /\ DirIdle /\ HistIdle

\* the effect on [origin, destination, travelMode], run with the values o, d:
\* calculateRoutes up to its first await
RunCalculateRoutes(o, d) ==
    IF o = NULL \/ d = NULL
    THEN UNCHANGED <<dirIsLoading, dirError, dirPending>>
    ELSE /\ dirPending < MaxDirPending
         /\ dirIsLoading' = TRUE
         /\ dirError' = NULL
         /\ dirPending' = dirPending + 1

\* setOrigin(location)
DirSetOrigin(location) ==
    /\ dirOrigin' = Some(location)
    /\ RunCalculateRoutes(Some(location), dirDestination)
    /\ UNCHANGED <<dirDestination, travelMode, dirRoutes, dirSelectedRoute>>
    /\ UNCHANGED DirOthers

\* setDestination(location)
DirSetDestination(location) ==
    /\ dirDestination' = Some(location)
    /\ RunCalculateRoutes(dirOrigin, Some(location))
    /\ UNCHANGED <<dirOrigin, travelMode, dirRoutes, dirSelectedRoute>>
    /\ UNCHANGED DirOthers

\* setTravelMode(mode): the effect runs only when the mode changed
SetTravelMode(mode) ==
    /\ mode # travelMode
    /\ travelMode' = mode
    /\ RunCalculateRoutes(dirOrigin, dirDestination)
    /\ UNCHANGED <<dirOrigin, dirDestination, dirRoutes, dirSelectedRoute>>
    /\ UNCHANGED DirOthers

\* setSelectedRoute(route), with one of the routes shown
DirSetSelectedRoute(i) ==
    /\ i \in 1..Len(dirRoutes)
    /\ dirSelectedRoute' = Some(dirRoutes[i])
    /\ UNCHANGED <<dirOrigin, dirDestination, travelMode, dirRoutes, dirIsLoading,
                   dirError, dirPending>>
    /\ UNCHANGED DirOthers

\* resetState()
ResetState ==
    /\ dirOrigin' = NULL /\ dirDestination' = NULL
    /\ dirRoutes' = <<>> /\ dirSelectedRoute' = NULL /\ dirError' = NULL
    /\ UNCHANGED <<travelMode, dirIsLoading, dirPending>>
    /\ UNCHANGED DirOthers

\* the directions request answers with a status other than OK: the catch
DirectionsRejects ==
    /\ dirPending > 0
    /\ dirError' = Some("Directions request failed")
    /\ dirIsLoading' = FALSE
    /\ dirPending' = dirPending - 1
    /\ UNCHANGED <<dirOrigin, dirDestination, travelMode, dirRoutes, dirSelectedRoute>>
    /\ UNCHANGED DirOthers

\* the directions request answers OK and the processing of a route throws:
\* Promise.all rejects, the catch
ProcessingFails(result) ==
    /\ dirPending > 0
    /\ result \in ThrowingResults
    /\ dirError' = Some("TypeError")
    /\ dirIsLoading' = FALSE
    /\ dirPending' = dirPending - 1
    /\ UNCHANGED <<dirOrigin, dirDestination, travelMode, dirRoutes, dirSelectedRoute>>
    /\ UNCHANGED DirOthers

\* the directions request answers OK and every route is processed
ProcessingCompletes(result) ==
    /\ dirPending > 0
    /\ result \in DOMAIN ProcessedRoutes
    /\ LET processedRoutes == ProcessedRoutes[result]
       IN  /\ dirRoutes' = processedRoutes
           /\ dirSelectedRoute' =
                  IF Len(processedRoutes) > 0
                  THEN Some(sortedCopy(processedRoutes)[1])
                  ELSE dirSelectedRoute
    /\ dirIsLoading' = FALSE
    /\ dirPending' = dirPending - 1
    /\ UNCHANGED <<dirOrigin, dirDestination, travelMode, dirError>>
    /\ UNCHANGED DirOthers

DirNext ==
    \/ \E location \in DirLocations : DirSetOrigin(location)
    \/ \E location \in DirLocations : DirSetDestination(location)
    \/ \E mode \in TravelModes : SetTravelMode(mode)
    \/ \E i \in 1..MaxDirRoutes : DirSetSelectedRoute(i)
    \/ ResetState
    \/ DirectionsRejects
    \/ \E result \in DirectionsResults : ProcessingFails(result)
    \/ \E result \in DirectionsResults : ProcessingCompletes(result)

DirSpec == DirInit /\ [][DirNext]_vars

-----------------------------------------------------------------------------
(* Claim C26 *)

\* the step stores a non-empty list of processed routes, or the selection
\* that goes with it
StoresProcessedRoutes ==
    /\ dirPending' = dirPending - 1
    /\ dirRoutes' # <<>>
    /\ <<dirRoutes', dirSelectedRoute'>> # <<dirRoutes, dirSelectedRoute>>

-----------------------------------------------------------------------------
(* PlacesSearch: the search history.  An item is written with the fields the
   two handlers read, id and address; placeId, location, country, state, city
   and timestamp are carried along and never read by them. *)

maxHistoryItems == 5
MaxClock == 2

\* place.formatted_address of the places the autocomplete can hand over
Addresses == {"1 Market St", "2 Mission St", "3 Howard St", "4 Folsom St",
              "5 Harrison St", "6 Bryant St"}

\* Array.prototype.slice(0, end), end >= 0
slice(s, end) == SubSeq(s, 1, Min(Len(s), end))

\* the updater of handlePlaceSelect without the filter on the address
addToHistoryUnfiltered(prevHistory, historyItem) ==
    slice(<<historyItem>> \o prevHistory, maxHistoryItems)

\* the updater handed to setSearchHistory by handlePlaceSelect
addToHistory(prevHistory, historyItem) ==
    LET filteredHistory ==
            SelectSeq(prevHistory, LAMBDA item : item.address # historyItem.address)
    IN  slice(<<historyItem>> \o filteredHistory, maxHistoryItems)

\* the updater handed to setSearchHistory by handleRemoveHistoryItem
removeFromHistory(prevHistory, itemId) ==
    SelectSeq(prevHistory, LAMBDA item : item.id # itemId)

HistOthers == <<routePath, score, genOrigin, genDestination, genRoutes, cb, heap, est,
                recVars, mapVars, dirVars>>

HistInit ==
    /\ routePath = NULL /\ score = NULL
    /\ genOrigin = NULL /\ genDestination = NULL /\ genRoutes = NULL
    /\ cb = NULL /\ heap = <<>> /\ est = NULL
    /\ RecIdle /\ MapIdle /\ DirIdle /\ HistIdle

\* handlePlaceSelect, for a place that has a formatted_address
HandlePlaceSelect(address) ==
    /\ searchInput' = address
    /\ searchHistory' = addToHistory(searchHistory, [id |-> now, address |-> address])
    /\ UNCHANGED now
    /\ UNCHANGED HistOthers

\* handleRemoveHistoryItem(e, itemId), from the button of a listed item
HandleRemoveHistoryItem(itemId) ==
    /\ \E i \in 1..Len(searchHistory) : searchHistory[i].id = itemId
    /\ searchHistory' = removeFromHistory(searchHistory, itemId)
    /\ UNCHANGED <<searchInput, now>>
    /\ UNCHANGED HistOthers

\* a millisecond passes
ClockTicks ==
    /\ now < MaxClock
    /\ now' = now + 1
    /\ UNCHANGED <<searchInput, searchHistory>>
    /\ UNCHANGED HistOthers

HistNext ==
    \/ \E address \in Addresses : HandlePlaceSelect(address)
    \/ \E itemId \in 0..MaxClock : HandleRemoveHistoryItem(itemId)
    \/ ClockTicks

HistSpec == HistInit /\ [][HistNext]_vars

-----------------------------------------------------------------------------
(* Claim C27 *)

AddressesOf(history) == {history[i].address : i \in 1..Len(history)}

NoTwoSameAddress(history) ==
    \A i, j \in 1..Len(history) : history[i].address = history[j].address => i = j

\* history without its i-th item
WithoutItem(history, i) ==
    SubSeq(history, 1, i - 1) \o SubSeq(history, i + 1, Len(history))

\* history without the items of the given id, the others in their order
WithoutId(history, itemId) ==
    SelectSeq(history, LAMBDA item : item.id # itemId)

=============================================================================
